---- MODULE Spec2Model ----
(***************************************************************************)
(* Model of the image catalogue service of app.py: the tag store loader,   *)
(* the filesystem catalogue, the multi-value parameter parser and the      *)
(* three query handlers (GET /images, GET /images/<category>,              *)
(* GET /images-search).                                                    *)
(*                                                                         *)
(* Strings are sequences of one-character strings, so that lower(),        *)
(* strip(), split(","), startswith(), endswith() and the code point order  *)
(* used by sorted() are computed rather than assumed.                      *)
(***************************************************************************)
EXTENDS Integers, Sequences, FiniteSets, TLC

VARIABLES fs, store, pc, request, response

vars == <<fs, store, pc, request, response>>

\* ---- Bounds ---------------------------------------------------------------

\* Largest number of image files in the whole image tree.
MaxFiles == 3

\* Largest value of the limit query parameter (the smallest is -1).
MaxLimit == 3

\* ---- Characters and strings ----------------------------------------------

\* Code point of a character (Python compares str by code point).
Ord(c) ==
    CASE c = " " -> 32
      [] c = "," -> 44
      [] c = "." -> 46
      [] c = "/" -> 47
      [] c = "7" -> 55
      [] c = ":" -> 58
      [] c = "G" -> 71
      [] c = "J" -> 74
      [] c = "O" -> 79
      [] c = "P" -> 80
      [] c = "X" -> 88
      [] c = "Z" -> 90
      [] c = "a" -> 97
      [] c = "b" -> 98
      [] c = "d" -> 100
      [] c = "e" -> 101
      [] c = "f" -> 102
      [] c = "g" -> 103
      [] c = "h" -> 104
      [] c = "i" -> 105
      [] c = "j" -> 106
      [] c = "m" -> 109
      [] c = "n" -> 110
      [] c = "o" -> 111
      [] c = "p" -> 112
      [] c = "s" -> 115
      [] c = "t" -> 116
      [] c = "w" -> 119
      [] c = "x" -> 120
      [] c = "z" -> 122

\* str.lower() on one character.
LowerChar(c) ==
    CASE c = "G" -> "g"
      [] c = "I" -> "i"
      [] c = "J" -> "j"
      [] c = "N" -> "n"
      [] c = "O" -> "o"
      [] c = "T" -> "t"
      [] c = "P" -> "p"
      [] c = "X" -> "x"
      [] c = "Z" -> "z"
      [] OTHER -> c

\* str.lower()
Lower(s) == [i \in 1..Len(s) |-> LowerChar(s[i])]

\* [t.lower() for t in ts]
LowerAll(ts) == [i \in 1..Len(ts) |-> Lower(ts[i])]

\* s.startswith(p)
StartsWith(s, p) == Len(s) >= Len(p) /\ SubSeq(s, 1, Len(p)) = p

\* s.endswith(p)
EndsWith(s, p) == Len(s) >= Len(p) /\ SubSeq(s, Len(s) - Len(p) + 1, Len(s)) = p

\* s < t for Python str: lexicographic by code point, a proper prefix first.
RECURSIVE StrLess(_, _)
StrLess(s, t) ==
    IF s = <<>> THEN t # <<>>
    ELSE IF t = <<>> THEN FALSE
    ELSE IF Ord(s[1]) # Ord(t[1]) THEN Ord(s[1]) < Ord(t[1])
    ELSE StrLess(Tail(s), Tail(t))

\* sorted(S) of a collection of distinct strings.
RECURSIVE Sorted(_)
Sorted(S) ==
    IF S = {} THEN <<>>
    ELSE LET least == CHOOSE x \in S : \A y \in S \ {x} : StrLess(x, y)
         IN  <<least>> \o Sorted(S \ {least})

\* s.strip(): leading and trailing whitespace removed.
RECURSIVE Strip(_)
Strip(s) ==
    IF s = <<>> THEN s
    ELSE IF s[1] = " " THEN Strip(Tail(s))
    ELSE IF s[Len(s)] = " " THEN Strip(SubSeq(s, 1, Len(s) - 1))
    ELSE s

\* s.rstrip("/")
RECURSIVE RStripSlash(_)
RStripSlash(s) ==
    IF s # <<>> /\ s[Len(s)] = "/" THEN RStripSlash(SubSeq(s, 1, Len(s) - 1))
    ELSE s

\* s.split(","): the pieces between commas, the empty ones included.
RECURSIVE Split(_, _)
Split(s, cur) ==
    IF s = <<>> THEN <<cur>>
    ELSE IF s[1] = "," THEN <<cur>> \o Split(Tail(s), <<>>)
    ELSE Split(Tail(s), Append(cur, s[1]))

\* [x for x in xs if x], for a list of strings.
RECURSIVE NonEmpty(_)
NonEmpty(xs) ==
    IF xs = <<>> THEN <<>>
    ELSE IF Head(xs) # <<>> THEN <<Head(xs)>> \o NonEmpty(Tail(xs))
    ELSE NonEmpty(Tail(xs))

\* str(n) of a natural number.
RECURSIVE Digits(_)
Digits(n) ==
    LET d == <<"0", "1", "2", "3", "4", "5", "6", "7", "8", "9">>
    IN  IF n < 10 THEN <<d[n + 1]>> ELSE Digits(n \div 10) \o <<d[(n % 10) + 1]>>

\* The elements of a sequence.
Range(xs) == {xs[i] : i \in 1..Len(xs)}

\* The first n elements of a sequence (all of them when it is shorter).
Take(xs, n) == SubSeq(xs, 1, IF n < Len(xs) THEN n ELSE Len(xs))

\* ---- Names used by the model ---------------------------------------------

\* Directories directly inside the image root: two ordinary ones and a hidden one.
CatA == <<"a">>
CatB == <<"b">>
CatHidden == <<".", "h">>
CatNames == {CatA, CatB, CatHidden}

\* A name that is never an entry of the image root.
CatMissing == <<"z">>

\* Regular files with an allow-listed extension that a category may hold.
FileZ == <<"Z", ".", "J", "P", "G">>
FileA == <<"a", ".", "g", "i", "f">>
FileM == <<"m", ".", "p", "n", "g">>
ImageNames == {FileZ, FileA, FileM}

\* Entries every category directory holds besides its images: a regular file
\* with another extension and a subdirectory whose name ends in ".png".
NoiseEntries ==
    { [name |-> <<"n", ".", "t", "x", "t">>, kind |-> "file"],
      [name |-> <<"s", ".", "p", "n", "g">>, kind |-> "dir"] }

\* A regular file lying directly in the image root.
RootFile == [name |-> <<"f", ".", "p", "n", "g">>, kind |-> "file"]

\* Number of image files in a tree.
RECURSIVE CountFiles(_, _)
CountFiles(files, cats) ==
    IF cats = {} THEN 0
    ELSE LET c == CHOOSE x \in cats : TRUE
         IN  Cardinality(files[c]) + CountFiles(files, cats \ {c})

\* The filesystem states: the image root is missing, or it holds the three
\* directories with at most MaxFiles image files in all.
FsStates ==
    { [root |-> FALSE, files |-> [c \in CatNames |-> {}]] }
    \cup { [root |-> TRUE, files |-> f] :
             f \in { g \in [CatNames -> SUBSET ImageNames] :
                       CountFiles(g, CatNames) <= MaxFiles } }

\* ---- Config (app.py 11-14) -----------------------------------------------

IMAGE_EXTS ==
    << <<".", "j", "p", "g">>, <<".", "j", "p", "e", "g">>, <<".", "p", "n", "g">>,
       <<".", "w", "e", "b", "p">>, <<".", "g", "i", "f">> >>

\* ---- Filesystem primitives -----------------------------------------------

\* os.listdir(app.static_folder), with each entry's kind.
RootEntries ==
    IF fs.root
    THEN {[name |-> c, kind |-> "dir"] : c \in CatNames} \cup {RootFile}
    ELSE {}

\* os.path.isdir(os.path.join(app.static_folder, name))
IsDirInRoot(name) == \E e \in RootEntries : e.name = name /\ e.kind = "dir"

\* os.listdir(folder) of a category directory, with each entry's kind.
DirEntries(category) ==
    {[name |-> f, kind |-> "file"] : f \in fs.files[category]} \cup NoiseEntries

\* ---- Tag store ------------------------------------------------------------

\* JSON values of the tag store.
JStr(s) == [t |-> "str", s |-> s]
JNum(n) == [t |-> "num", n |-> n]
JList(items) == [t |-> "list", items |-> items]
JObj(m) == [t |-> "obj", m |-> m]

TagJoint == <<"J", "o", "i", "n", "t">>
TagJOINT == <<"J", "O", "I", "N", "T">>
TagJointed == <<"j", "o", "i", "n", "t", "e", "d">>
TagJo == <<"j", "o">>
TagX == <<"X">>
Tagx == <<"x">>

\* A well-formed store: tag lists, a scalar tag, a number among the tags.
Doc1 ==
    JObj( CatA :> JObj(FileZ :> JList(<<JStr(TagJoint), JStr(Tagx)>>)
                       @@ FileM :> JStr(TagJOINT))
       @@ CatB :> JObj(FileZ :> JList(<<JNum(7), JStr(TagJo)>>)
                       @@ FileA :> JNum(7)
                       @@ FileM :> JList(<<JStr(Tagx)>>))
       @@ CatHidden :> JObj(FileM :> JList(<<JStr(TagX)>>)) )

\* A top-level mapping with a category entry that is no mapping, an empty tag
\* list and an entry for a category that is not on disk.
Doc2 ==
    JObj( CatA :> JStr(Tagx)
       @@ CatB :> JObj(FileZ :> JList(<<>>)
                       @@ FileA :> JList(<<JStr(TagJoint)>>)
                       @@ FileM :> JList(<<JStr(TagJointed), JStr(TagX)>>))
       @@ CatMissing :> JObj(FileM :> JList(<<JStr(Tagx)>>)) )

\* A top-level value that is no mapping.
Doc3 == JList(<<JStr(Tagx)>>)

\* The states of tags.json: no such file; a file open() fails on; a file that
\* is no JSON text; and three JSON documents.
StoreStates == {"absent", "unreadable", "garbled", "doc1", "doc2", "doc3"}

\* os.path.exists(TAGS_PATH)
StoreExists(s) == s # "absent"

\* open(TAGS_PATH, "r") succeeds
StoreOpens(s) == s # "unreadable"

\* json.load(f) succeeds
StoreParses(s) == s \in {"doc1", "doc2", "doc3"}

\* The value json.load(f) returns.
StoreDocument(s) ==
    CASE s = "doc1" -> Doc1
      [] s = "doc2" -> Doc2
      [] s = "doc3" -> Doc3

\* str(t) of a JSON scalar.
Str(v) == IF v.t = "str" THEN v.s ELSE Digits(v.n)

\* The empty dict.
EmptyDict == [x \in {} |-> <<>>]

\* d[k] = v
DictSet(d, k, v) == [x \in DOMAIN d \cup {k} |-> IF x = k THEN v ELSE d[x]]

\* Lines 33-41: category entries that are no mapping are dropped, tag lists
\* become lists of str, any other tag value a one-element list.
NormalizeTags(data) ==
    LET kept == {c \in DOMAIN data.m : data.m[c].t = "obj"}
        norm(tags) ==
            IF tags.t = "list"
            THEN [i \in 1..Len(tags.items) |-> Str(tags.items[i])]
            ELSE <<Str(tags)>>
    IN  [c \in kept |-> [f \in DOMAIN data.m[c].m |-> norm(data.m[c].m[f])]]

\* What a call of load_tags() ends in: a returned mapping, or an exception.
Returned(index) == [raised |-> FALSE, index |-> index]
Raised == [raised |-> TRUE, index |-> EmptyDict]

\* load_tags()
load_tags ==
    IF ~StoreExists(store) THEN Returned(EmptyDict)
    ELSE IF ~StoreOpens(store) THEN Raised
    ELSE IF ~StoreParses(store) THEN Returned(EmptyDict)
    ELSE IF StoreDocument(store).t # "obj" THEN Returned(EmptyDict)
    ELSE Returned(NormalizeTags(StoreDocument(store)))

\* ---- Helpers --------------------------------------------------------------

\* request.host_url
host_url == <<"h", "/">>

\* base_url()
base_url == RStripSlash(host_url)

\* categories()
categories ==
    IF fs.root
    THEN Sorted({e.name : e \in {x \in RootEntries :
                                   x.kind = "dir" /\ ~StartsWith(x.name, <<".">>)}})
    ELSE <<>>

\* f.lower().endswith(IMAGE_EXTS)
HasImageExt(f) == \E i \in 1..Len(IMAGE_EXTS) : EndsWith(Lower(f), IMAGE_EXTS[i])

\* image_files_in(category)
image_files_in(category) ==
    IF ~IsDirInRoot(category) THEN <<>>
    ELSE Sorted({e.name : e \in {x \in DirEntries(category) :
                                   x.kind = "file" /\ HasImageExt(x.name)}})

\* The loop body of parse_multi_param for one raw value.
ParseValue(v) ==
    LET pieces == Split(v, <<>>)
        parts == [i \in 1..Len(pieces) |-> Strip(pieces[i])]
    IN  NonEmpty(parts)

\* parse_multi_param(values)
RECURSIVE parse_multi_param(_)
parse_multi_param(values) ==
    IF values = <<>> THEN <<>>
    ELSE ParseValue(Head(values)) \o parse_multi_param(Tail(values))

\* ---- Requests and responses ----------------------------------------------

\* The limit query parameter as sent: absent, the text of an int, or other text.
NoLimitArg == [kind |-> "absent", n |-> 0]
LimitArgs ==
    {NoLimitArg, [kind |-> "text", n |-> 0]}
    \cup {[kind |-> "int", n |-> n] : n \in -1..MaxLimit}

\* An Optional[int].
NoLimit == [some |-> FALSE, n |-> 0]
SomeLimit(n) == [some |-> TRUE, n |-> n]

\* request.args.get("limit", type=int): None when the parameter is absent or
\* int() rejects it.
get_limit(arg) == IF arg.kind = "int" THEN SomeLimit(arg.n) ELSE NoLimit

\* request.args.getlist("categories"): the raw values of the repeated parameter.
CatArgs ==
    { <<>>,
      << <<",">> >>,
      << <<"b", ",", "a">> >>,
      << <<"a">>, <<"a">> >>,
      << <<" ", "a", " ", ",", "z", ",", "b">> >>,
      << <<".", "h">>, <<"b">> >> }

\* request.args.getlist("tag"): the raw values of the repeated parameter.
TagArgs ==
    { <<>>,
      << <<" ", ",", " ">> >>,
      << <<"X">> >>,
      << <<"j", "o", "i", "n", "t", ",", "7">> >>,
      << <<"J", "o">>, <<>> >> }

\* The <category> path parameter of GET /images/<category>.
PathArgs == {CatA, CatB, CatHidden, CatMissing}

\* "/images/"
ImagesPath == <<"/", "i", "m", "a", "g", "e", "s", "/">>

\* The record appended for an accepted image.
ImageRecord(cat, fname, tags) ==
    [ url |-> base_url \o ImagesPath \o cat \o <<"/">> \o fname,
      filename |-> fname,
      tags |-> tags,
      category |-> cat ]

\* TAGS.get(cat, {}).get(fname, [])
TagsOf(TAGS, cat, fname) ==
    IF cat \in DOMAIN TAGS
    THEN IF fname \in DOMAIN TAGS[cat] THEN TAGS[cat][fname] ELSE <<>>
    ELSE <<>>

\* any(t in tags for t in tag_filter): the image's tags compared as stored.
MatchAnyAsStored(tags, tag_filter) ==
    \E i \in 1..Len(tag_filter) : \E j \in 1..Len(tags) : tag_filter[i] = tags[j]

\* any(t in tags_l for t in tag_filter), with tags_l = [t.lower() for t in tags]
MatchAny(tags, tag_filter) ==
    LET tags_l == LowerAll(tags)
    IN  \E i \in 1..Len(tag_filter) : \E j \in 1..Len(tags_l) : tag_filter[i] = tags_l[j]

\* One pass of a handler over an image: what it looked at and what it decided.
Decision(cat, fname, tags, accepted) ==
    [category |-> cat, filename |-> fname, tags |-> tags, accepted |-> accepted]

\* What a handler ends in.  decisions lists the images the loops examined.
Success(data, items, decisions) ==
    [outcome |-> "ok", data |-> data, items |-> items, decisions |-> decisions]
Failure(kind) ==
    [outcome |-> kind, data |-> EmptyDict, items |-> <<>>, decisions |-> <<>>]
NotFound == Failure("NotFound")
InvalidArgument == Failure("InvalidArgument")
InternalError == Failure("InternalError")

NoRequest ==
    [shape |-> "none", categories |-> <<>>, category |-> <<>>, tag |-> <<>>,
     limit |-> NoLimitArg]
NoResponse == Failure("none")

\* ---- GET /images ----------------------------------------------------------

\* data[cat] = bucket, whether or not the bucket is empty.
StoreBucketAlways(data, cat, bucket) == DictSet(data, cat, bucket)

\* Lines 155-156 and 159-160: if bucket: data[cat] = bucket
StoreBucket(data, cat, bucket) ==
    IF bucket # <<>> THEN DictSet(data, cat, bucket) ELSE data

\* Lines 134-157: the loop over the files of one category.  st holds data,
\* total_count, bucket, the decisions so far and whether the handler returned.
RECURSIVE AllFilesLoop(_, _, _, _, _, _, _)
AllFilesLoop(TAGS, tag_filter, limit, cat, files, k, st) ==
    IF k > Len(files) THEN st
    ELSE
      LET fname == files[k]
          tags == TagsOf(TAGS, cat, fname)
          skip == tag_filter # <<>> /\ ~MatchAny(tags, tag_filter)
          seen == Append(st.decisions, Decision(cat, fname, tags, ~skip))
      IN  IF skip
          THEN AllFilesLoop(TAGS, tag_filter, limit, cat, files, k + 1,
                            [st EXCEPT !.decisions = seen])
          ELSE
            LET bucket == Append(st.bucket, ImageRecord(cat, fname, tags))
                total_count == IF limit.some THEN st.total_count + 1
                               ELSE st.total_count
            IN  IF limit.some /\ total_count >= limit.n
                THEN [ data |-> StoreBucket(st.data, cat, bucket),
                       total_count |-> total_count,
                       bucket |-> bucket,
                       decisions |-> seen,
                       returned |-> TRUE ]
                ELSE AllFilesLoop(TAGS, tag_filter, limit, cat, files, k + 1,
                                  [st EXCEPT !.decisions = seen, !.bucket = bucket,
                                             !.total_count = total_count])

\* Lines 127-160: the loop over the chosen categories.
RECURSIVE AllCategoriesLoop(_, _, _, _, _, _)
AllCategoriesLoop(TAGS, tag_filter, limit, chosen_categories, i, st) ==
    IF i > Len(chosen_categories) THEN st
    ELSE
      LET cat == chosen_categories[i]
          files == image_files_in(cat)
      IN  IF files = <<>>
          THEN AllCategoriesLoop(TAGS, tag_filter, limit, chosen_categories, i + 1, st)
          ELSE
            LET r == AllFilesLoop(TAGS, tag_filter, limit, cat, files, 1,
                                  [st EXCEPT !.bucket = <<>>])
            IN  IF r.returned THEN r
                ELSE AllCategoriesLoop(
                       TAGS, tag_filter, limit, chosen_categories, i + 1,
                       [r EXCEPT !.data = StoreBucket(r.data, cat, r.bucket)])

\* Line 123: the working categories.
ChosenCategories(cat_filter) == IF cat_filter # <<>> THEN cat_filter ELSE categories

\* list_all_images(): the response to GET /images with these arguments.
ListAllImages(catArg, tagArg, limit) ==
    LET loaded == load_tags
        cat_filter == parse_multi_param(catArg)
        tag_filter == LowerAll(parse_multi_param(tagArg))
    IN  IF loaded.raised THEN InternalError
        ELSE IF limit.some /\ limit.n < 1 THEN InvalidArgument
        ELSE
          LET r == AllCategoriesLoop(
                     loaded.index, tag_filter, limit, ChosenCategories(cat_filter), 1,
                     [ data |-> EmptyDict, total_count |-> 0, bucket |-> <<>>,
                       decisions |-> <<>>, returned |-> FALSE ])
          IN  Success(r.data, <<>>, r.decisions)

\* ---- GET /images/<category> ----------------------------------------------

\* Lines 184-201: the loop over the files of the category.
RECURSIVE CategoryLoop(_, _, _, _, _, _, _)
CategoryLoop(TAGS, tag_filter, limit, category, files, k, st) ==
    IF k > Len(files) THEN st
    ELSE
      LET fname == files[k]
          tags == TagsOf(TAGS, category, fname)
          skip == tag_filter # <<>> /\ ~MatchAny(tags, tag_filter)
          seen == Append(st.decisions, Decision(category, fname, tags, ~skip))
      IN  IF skip
          THEN CategoryLoop(TAGS, tag_filter, limit, category, files, k + 1,
                            [st EXCEPT !.decisions = seen])
          ELSE
            LET items == Append(st.items, ImageRecord(category, fname, tags))
            IN  IF limit.some /\ Len(items) >= limit.n
                THEN [items |-> items, decisions |-> seen]
                ELSE CategoryLoop(TAGS, tag_filter, limit, category, files, k + 1,
                                  [items |-> items, decisions |-> seen])

\* list_images_by_category(category)
ListImagesByCategory(category, tagArg, limit) ==
    LET loaded == load_tags
        files == image_files_in(category)
        tag_filter == LowerAll(parse_multi_param(tagArg))
    IN  IF loaded.raised THEN InternalError
        ELSE IF files = <<>> THEN NotFound
        ELSE IF limit.some /\ limit.n < 1 THEN InvalidArgument
        ELSE
          LET r == CategoryLoop(loaded.index, tag_filter, limit, category, files, 1,
                                [items |-> <<>>, decisions |-> <<>>])
          IN  Success(EmptyDict, r.items, r.decisions)

\* ---- GET /images-search ---------------------------------------------------

\* Lines 224-235: the loop over the files of one category.
RECURSIVE SearchFilesLoop(_, _, _, _, _, _, _)
SearchFilesLoop(TAGS, tag_filter, limit, cat, files, k, st) ==
    IF k > Len(files) THEN st
    ELSE
      LET fname == files[k]
          tags == TagsOf(TAGS, cat, fname)
          hit == MatchAny(tags, tag_filter)
          seen == Append(st.decisions, Decision(cat, fname, tags, hit))
      IN  IF ~hit
          THEN SearchFilesLoop(TAGS, tag_filter, limit, cat, files, k + 1,
                               [st EXCEPT !.decisions = seen])
          ELSE
            LET results == Append(st.results, ImageRecord(cat, fname, tags))
            IN  IF limit.some /\ Len(results) >= limit.n
                THEN [results |-> results, decisions |-> seen, returned |-> TRUE]
                ELSE SearchFilesLoop(TAGS, tag_filter, limit, cat, files, k + 1,
                                     [st EXCEPT !.decisions = seen,
                                                !.results = results])

\* Lines 223-237: the loop over categories().
RECURSIVE SearchLoop(_, _, _, _, _, _)
SearchLoop(TAGS, tag_filter, limit, cats, i, st) ==
    IF i > Len(cats) THEN st
    ELSE
      LET r == SearchFilesLoop(TAGS, tag_filter, limit, cats[i],
                               image_files_in(cats[i]), 1, st)
      IN  IF r.returned THEN r
          ELSE SearchLoop(TAGS, tag_filter, limit, cats, i + 1, r)

\* search_by_tag()
SearchByTag(tagArg, limit) ==
    LET loaded == load_tags
        tag_filter == LowerAll(parse_multi_param(tagArg))
    IN  IF loaded.raised THEN InternalError
        ELSE IF tag_filter = <<>> THEN InvalidArgument
        ELSE IF limit.some /\ limit.n < 1 THEN InvalidArgument
        ELSE
          LET r == SearchLoop(loaded.index, tag_filter, limit, categories, 1,
                              [results |-> <<>>, decisions |-> <<>>,
                               returned |-> FALSE])
          IN  Success(EmptyDict, r.results, r.decisions)

\* ---- The service ----------------------------------------------------------

Init ==
    /\ fs \in FsStates
    /\ store \in StoreStates
    /\ pc = "idle"
    /\ request = NoRequest
    /\ response = NoResponse

\* GET /images
list_all_images ==
    /\ pc = "idle"
    /\ \E catArg \in CatArgs, tagArg \in TagArgs, limit \in LimitArgs :
         /\ request' = [shape |-> "all", categories |-> catArg, category |-> <<>>,
                        tag |-> tagArg, limit |-> limit]
         /\ response' = ListAllImages(catArg, tagArg, get_limit(limit))
    /\ pc' = "done"
    /\ UNCHANGED <<fs, store>>

\* GET /images/<category>
list_images_by_category ==
    /\ pc = "idle"
    /\ \E category \in PathArgs, tagArg \in TagArgs, limit \in LimitArgs :
         /\ request' = [shape |-> "category", categories |-> <<>>,
                        category |-> category, tag |-> tagArg, limit |-> limit]
         /\ response' = ListImagesByCategory(category, tagArg, get_limit(limit))
    /\ pc' = "done"
    /\ UNCHANGED <<fs, store>>

\* GET /images-search
search_by_tag ==
    /\ pc = "idle"
    /\ \E tagArg \in TagArgs, limit \in LimitArgs :
         /\ request' = [shape |-> "search", categories |-> <<>>, category |-> <<>>,
                        tag |-> tagArg, limit |-> limit]
         /\ response' = SearchByTag(tagArg, get_limit(limit))
    /\ pc' = "done"
    /\ UNCHANGED <<fs, store>>

\* The response is sent and the server waits for the next request.
serve_next ==
    /\ pc = "done"
    /\ pc' = "idle"
    /\ request' = NoRequest
    /\ response' = NoResponse
    /\ UNCHANGED <<fs, store>>

Next == list_all_images \/ list_images_by_category \/ search_by_tag \/ serve_next

Spec == Init /\ [][Next]_vars

\* ---- What the claims speak of, read off the filesystem and the request ----

\* The immediate subdirectories of the image root whose name has no leading ".".
Discovered == IF fs.root THEN {c \in CatNames : c[1] # "."} ELSE {}

\* The regular files with an allow-listed extension directly inside a directory
\* of the image root (none when there is no such directory).
ImagesOf(c) == IF fs.root /\ c \in CatNames THEN fs.files[c] ELSE {}

\* The requested tag tokens, lowercased, as a set.
RequestedTags(tagArg) == Range(LowerAll(parse_multi_param(tagArg)))

\* The image's own tags, lowercased, as a set.
OwnTags(c, f) == Range(LowerAll(TagsOf(load_tags.index, c, f)))

\* The image passes the tag filter: no filter, or a tag in common.
Passes(c, f, tagArg) ==
    RequestedTags(tagArg) = {} \/ OwnTags(c, f) \cap RequestedTags(tagArg) # {}

\* The working categories of GET /images, as a set.
WorkingSet(catArg) ==
    IF parse_multi_param(catArg) # <<>> THEN Range(parse_multi_param(catArg))
    ELSE Discovered

\* <<category, filename>> of the matching images of the categories cs, ordered
\* by category ascending, then filename ascending.
RECURSIVE MatchingIn(_, _, _)
MatchingIn(c, files, tagArg) ==
    IF files = <<>> THEN <<>>
    ELSE (IF Passes(c, Head(files), tagArg) THEN << <<c, Head(files)>> >> ELSE <<>>)
         \o MatchingIn(c, Tail(files), tagArg)

RECURSIVE MatchingOver(_, _)
MatchingOver(cs, tagArg) ==
    IF cs = <<>> THEN <<>>
    ELSE MatchingIn(Head(cs), Sorted(ImagesOf(Head(cs))), tagArg)
         \o MatchingOver(Tail(cs), tagArg)

Matching(cats, tagArg) == MatchingOver(Sorted(cats), tagArg)

\* The first L elements under a limit L, all of them without one.
Limited(xs, limit) == IF limit.kind = "int" THEN Take(xs, limit.n) ELSE xs

\* <<category, filename>> of each record of a sequence.
Pairs(records) == [i \in 1..Len(records) |-> <<records[i].category, records[i].filename>>]

\* The records of a bucketed response, category keys ascending.
RECURSIVE FlattenOver(_, _)
FlattenOver(data, cs) ==
    IF cs = <<>> THEN <<>> ELSE data[Head(cs)] \o FlattenOver(data, Tail(cs))

Flatten(data) == FlattenOver(data, Sorted(DOMAIN data))

\* Every record of the response, whatever its shape.
Records == Range(Flatten(response.data)) \cup Range(response.items)

\* The limit is absent, or an integer that is at least 1.
ValidLimit(limit) == limit.kind = "absent" \/ (limit.kind = "int" /\ limit.n >= 1)

Answered(shape) == pc = "done" /\ request.shape = shape

\* ---- Claims ---------------------------------------------------------------

\* C1: GET /images with a limit L >= 1 returns min(L, M) records in all, M being
\* the number of images of the working category set that pass the tag filter.
C1_TotalIsMinLimitMatching ==
    (Answered("all") /\ response.outcome = "ok" /\ request.limit.kind = "int")
    => Len(Flatten(response.data))
         = Len(Take(Matching(WorkingSet(request.categories), request.tag),
                    request.limit.n))

\* C2: GET /images returns exactly the first min(L, M) matching records of the
\* sequence ordered by (category ascending, filename ascending), also when the
\* category filter names the categories in another order.
C2_FirstInCategoryThenFileOrder ==
    (Answered("all") /\ response.outcome = "ok" /\ ValidLimit(request.limit))
    => Pairs(Flatten(response.data))
         = Limited(Matching(WorkingSet(request.categories), request.tag),
                   request.limit)

\* C3: a limit that is present and below 1 ends in InvalidArgument in each of the
\* three shapes (stated here for the stores load_tags can read).
C3_BadLimitIsInvalidArgument ==
    (pc = "done" /\ request.limit.kind = "int" /\ request.limit.n < 1
       /\ ~load_tags.raised)
    => response.outcome = "InvalidArgument"

\* C4: load_tags never raises, returns the empty index for every store that is
\* not a well-formed top-level mapping, and a query on such a store succeeds
\* with tags == [] on every record.
C4_LoaderNeverRaises ==
    /\ ~load_tags.raised
    /\ store \notin {"doc1", "doc2"} => load_tags.index = EmptyDict
    /\ (pc = "done" /\ store \notin {"doc1", "doc2"})
       => /\ response.outcome # "InternalError"
          /\ \A r \in Records : r.tags = <<>>

\* C5: GET /images/<category> with a valid or absent limit is NotFound exactly
\* when the category has no image files, and otherwise a success carrying the
\* first min(L, M) matching records in ascending filename order.
C5_NotFoundIffNoImages ==
    (Answered("category") /\ ValidLimit(request.limit))
    => /\ response.outcome = "NotFound" <=> ImagesOf(request.category) = {}
       /\ ImagesOf(request.category) # {}
          => /\ response.outcome = "ok"
             /\ Pairs(response.items)
                  = Limited(Matching({request.category}, request.tag), request.limit)

\* C5 with the tag store restricted to those load_tags can read.
C5_WhenStoreLoads == ~load_tags.raised => C5_NotFoundIffNoImages

\* C6: GET /images-search with a non-empty tag filter and a valid or absent
\* limit returns the first min(L, M) matching records over the discovered
\* categories in (category, filename) order.
C6_SearchIsOrderedPrefix ==
    (Answered("search") /\ RequestedTags(request.tag) # {} /\ ValidLimit(request.limit))
    => /\ response.outcome = "ok"
       /\ Pairs(response.items) = Limited(Matching(Discovered, request.tag), request.limit)

\* C6 with the tag store restricted to those load_tags can read.
C6_WhenStoreLoads == ~load_tags.raised => C6_SearchIsOrderedPrefix

\* C7: an examined image is accepted exactly when no tag filter is active or
\* its lowercased tags share an element with the lowercased requested tags;
\* every record returned is one of the accepted images.
C7_AcceptedIffTagInCommon ==
    (pc = "done" /\ response.outcome = "ok")
    => /\ \A i \in 1..Len(response.decisions) :
            LET d == response.decisions[i]
            IN  d.accepted <=> Passes(d.category, d.filename, request.tag)
       /\ \A r \in Records :
            \E i \in 1..Len(response.decisions) :
               LET d == response.decisions[i]
               IN  d.accepted /\ d.category = r.category /\ d.filename = r.filename

\* A tag filter was active, an image was accepted through a tag that differs in
\* case from the requested one, and an image with tags was rejected.
C7_Witness ==
    /\ pc = "done" /\ response.outcome = "ok"
    /\ RequestedTags(request.tag) # {}
    /\ \E i, j \in 1..Len(response.decisions) :
          /\ response.decisions[i].accepted
          /\ Range(response.decisions[i].tags) \cap RequestedTags(request.tag) = {}
          /\ ~response.decisions[j].accepted
          /\ response.decisions[j].tags # <<>>

\* The raw values of a parameter all split into pieces that are blank.
AllBlank(values) ==
    \A i \in 1..Len(values) :
       \A j \in 1..Len(Split(values[i], <<>>)) :
          \A k \in 1..Len(Split(values[i], <<>>)[j]) : Split(values[i], <<>>)[j][k] = " "

\* C8: GET /images-search whose tag parameter yields no tokens ends in
\* InvalidArgument; parse_multi_param yields no tokens exactly when every raw
\* value splits on commas into pieces that are empty after trimming.
C8_NoTokensIsInvalidArgument ==
    /\ (Answered("search") /\ parse_multi_param(request.tag) = <<>>)
       => response.outcome = "InvalidArgument"
    /\ \A v \in TagArgs \cup CatArgs : parse_multi_param(v) = <<>> <=> AllBlank(v)

\* C8 with the tag store restricted to those load_tags can read.
C8_WhenStoreLoads == ~load_tags.raised => C8_NoTokensIsInvalidArgument

\* C9: in a finalized GET /images response every bucket is non-empty and holds
\* records of its own category; a working category without an accepted image
\* is missing from it; the outcome is never NotFound.
C9_NoEmptyBuckets ==
    Answered("all")
    => /\ response.outcome # "NotFound"
       /\ response.outcome = "ok"
          => /\ \A c \in DOMAIN response.data :
                  /\ response.data[c] # <<>>
                  /\ \A i \in 1..Len(response.data[c]) :
                        response.data[c][i].category = c
             /\ \A c \in WorkingSet(request.categories) :
                  (\/ \A f \in ImagesOf(c) : ~Passes(c, f, request.tag)
                   \/ \A i \in 1..Len(response.decisions) :
                         response.decisions[i].category = c
                         => ~response.decisions[i].accepted)
                  => c \notin DOMAIN response.data

\* A GET /images response with a bucket, and working categories left out of it:
\* one absent from disk or without image files, one with images none accepted.
C9_Witness ==
    /\ Answered("all") /\ response.outcome = "ok"
    /\ DOMAIN response.data # {}
    /\ \E c \in WorkingSet(request.categories) :
          ImagesOf(c) = {} /\ c \notin DOMAIN response.data
    /\ \E c \in WorkingSet(request.categories) :
          /\ ImagesOf(c) # {}
          /\ \E i \in 1..Len(response.decisions) : response.decisions[i].category = c
          /\ c \notin DOMAIN response.data

\* C10: every record returned carries a discovered category and the name of an
\* image file directly inside that category's directory.
C10_RecordsAreDiscoveredImages ==
    (pc = "done" /\ response.outcome = "ok")
    => \A r \in Records :
          r.category \in Discovered /\ r.filename \in ImagesOf(r.category)

====
